---- MODULE Spec2Model ----
(***************************************************************************)
(* A model of aioapns (connection.py, common.py): the JWT authorization    *)
(* header provider with its cached token, the request construction and     *)
(* the one-shot HTTP/2 exchange of APNsBaseClientProtocol, and the         *)
(* certificate-based and key-based connection pools.                       *)
(*                                                                         *)
(* Time: time.time() is a float.  A clock reading is a whole number of     *)
(* ticks, TicksPerSecond ticks to the second; int(now) is now \div         *)
(* TicksPerSecond.  Strings are sequences of one-character strings, so     *)
(* that str(), f-strings and concatenation are computed, not assumed.      *)
(***************************************************************************)
EXTENDS Integers, Sequences, FiniteSets, TLC

VARIABLES
    clock,      \* the wall clock time.time() reads, in ticks
    advances,   \* how many times the clock has been advanced
    prov,       \* a JWTAuthorizationHeaderProvider shared by direct callers
    signCount,  \* the number of jwt.encode calls made so far
    calls,      \* the get_header calls on prov that have finished, in order
    thr,        \* per calling thread: its position and locals in get_header
    pools,      \* the two connection pools, by the use_sandbox they were built with
    req,        \* the NotificationRequest the caller holds, or None
    uuids,      \* the number of uuid4() calls made so far
    cur,        \* the send_notification call in progress: position and locals
    conns,      \* every HTTP20Connection opened so far, in order
    done,       \* the send_notification calls that have finished, in order
    nprotocols, \* the number of protocol objects created so far
    nproviders, \* the number of JWTAuthorizationHeaderProvider objects created
    built,      \* the arguments the pools were constructed with
    reqArgs,    \* the arguments req was constructed with
    result,     \* the NotificationResult the caller holds, or None
    resultArgs, \* the arguments result was constructed with
    observed    \* the last reading of result.is_successful, with what was read

poolVars ==
    <<pools, req, uuids, cur, conns, done, nprotocols, nproviders, built, reqArgs>>
resultVars == <<result, resultArgs, observed>>
vars == <<clock, advances, prov, signCount, calls, thr, poolVars, resultVars>>

----------------------------------------------------------------------------
(* Bounds of the model *)

TicksPerSecond == 2
StartSecond == 5000
MaxAdvances == 3
MaxCalls == 3
NumThreads == 2
MaxTicks == 2
MaxUuids == 2
MaxSends == 2

----------------------------------------------------------------------------
(* Python values *)

None == [t |-> "None"]
PyInt(n) == [t |-> "int", v |-> n]
PyStr(s) == [t |-> "str", v |-> s]

Digits == <<"0", "1", "2", "3", "4", "5", "6", "7", "8", "9">>

\* str(n) of a non-negative int: its decimal digits, most significant first
RECURSIVE IntToStr(_)
IntToStr(n) ==
    IF n < 10 THEN <<Digits[n + 1]>>
    ELSE IntToStr(n \div 10) \o <<Digits[(n % 10) + 1]>>

\* str(x): a str is returned as it is, an int is written in decimal
Str(x) == IF x.t = "str" THEN x.v ELSE IntToStr(x.v)

\* int(now) of a clock reading: the whole seconds
IntTime(now) == now \div TicksPerSecond

----------------------------------------------------------------------------
(* JWTAuthorizationHeaderProvider *)

TOKEN_TTL == 30 * 60

GoodKey == <<"E", "C", "-", "P", "E", "M">>
BadKey == <<"j", "u", "n", "k">>
KeyId == <<"K", "1">>
TeamId == <<"T", "1">>

\* (mutant) a provider that starts with a token already cached
JWTAuthorizationHeaderProvider_Cached(key, key_id, team_id) ==
    [key |-> key, key_id |-> key_id, team_id |-> team_id,
     issued_at |-> StartSecond,
     header |-> [prefix |-> <<"b", "e", "a", "r", "e", "r", " ">>,
                 token |-> [iss |-> team_id, iat |-> StartSecond,
                            alg |-> "ES256", kid |-> key_id, key |-> key]]]

\* __init__: the key material is stored, the cache starts empty
JWTAuthorizationHeaderProvider(key, key_id, team_id) ==
    [key |-> key, key_id |-> key_id, team_id |-> team_id,
     issued_at |-> None, header |-> None]

\* jwt.encode: the signing collaborator.  A key that is no EC private key
\* makes it raise; otherwise the token is opaque and carries what was signed.
JwtEncode(payload, key, algorithm, headers) ==
    IF key = GoodKey
    THEN [ok |-> TRUE,
          token |-> [iss |-> payload.iss, iat |-> payload.iat,
                     alg |-> algorithm, kid |-> headers.kid, key |-> key]]
    ELSE [ok |-> FALSE]

\* f"bearer {token}"
BearerPrefix == <<"b", "e", "a", "r", "e", "r", " ">>
FormatBearer(token) == [prefix |-> BearerPrefix, token |-> token]

\* the first operand of line 32: not self.__header
NoHeader(self) == self.header = None

\* (mutant) the comparison made inclusive: a token exactly TOKEN_TTL old
\* counts as stale
IssuedBefore_Inclusive(issued_at, now) ==
    issued_at * TicksPerSecond <= now - TOKEN_TTL * TicksPerSecond

\* (mutant) the threshold taken one second too long
IssuedBefore_Late(issued_at, now) ==
    issued_at * TicksPerSecond < now - (TOKEN_TTL + 1) * TicksPerSecond

\* the second operand of line 32: self.__issued_at < now - self.TOKEN_TTL,
\* an int of seconds against a float of seconds
IssuedBefore(issued_at, now) ==
    issued_at * TicksPerSecond < now - TOKEN_TTL * TicksPerSecond

\* (mutant) the age of the cached token is not looked at
NeedsToken_OnlyFirst(self, now) == self.header = None

\* line 32, with the short circuit of `or`
NeedsToken(self, now) ==
    IF NoHeader(self) THEN TRUE ELSE IssuedBefore(self.issued_at, now)

\* get_header run from start to end by one caller at clock reading now:
\* the provider afterwards, what is returned or that jwt.encode raised,
\* and whether jwt.encode was called
GetHeader(self, now) ==
    IF NeedsToken(self, now)
    THEN LET stamped == [self EXCEPT !.issued_at = IntTime(now)]
             enc == JwtEncode([iss |-> stamped.team_id, iat |-> stamped.issued_at],
                              stamped.key, "ES256", [kid |-> stamped.key_id])
         IN  IF enc.ok
             THEN LET cached == [stamped EXCEPT !.header = FormatBearer(enc.token)]
                  IN  [self |-> cached, raised |-> FALSE, ret |-> cached.header,
                       signed |-> TRUE]
             ELSE [self |-> stamped, raised |-> TRUE, ret |-> None, signed |-> TRUE]
    ELSE [self |-> self, raised |-> FALSE, ret |-> self.header, signed |-> FALSE]

----------------------------------------------------------------------------
(* common.py *)

\* the truth value Python gives an object in `or`, `not` and `if`
Truthy(x) ==
    /\ x # None
    /\ ~(x.t = "str" /\ x.v = <<>>)
    /\ ~(x.t = "int" /\ x.v = 0)

PRIORITY_NORMAL == PyStr(<<"5">>)
PRIORITY_HIGH == PyStr(<<"1", "0">>)

\* class PushType(Enum): each member with its value
PushTypeValues ==
    [ALERT |-> <<"a", "l", "e", "r", "t">>,
     BACKGROUND |-> <<"b", "a", "c", "k", "g", "r", "o", "u", "n", "d">>,
     VOIP |-> <<"v", "o", "i", "p">>,
     COMPLICATION |-> <<"c", "o", "m", "p", "l", "i", "c", "a", "t", "i", "o", "n">>,
     FILEPROVIDER |-> <<"f", "i", "l", "e", "p", "r", "o", "v", "i", "d", "e", "r">>,
     MDM |-> <<"m", "d", "m">>]

PushType(name) ==
    [t |-> "PushType", name |-> name, value |-> PyStr(PushTypeValues[name])]

\* str(uuid4()) of the n-th call of uuid4
Uuid4(n) == PyStr(<<"u", "u", "i", "d", "-">> \o IntToStr(n))

\* (mutant) the identifier tested with `is not None`
NotificationRequest_IsNone(device_token, message, notification_id, time_to_live, priority, collapse_key, push_type, uuid) ==
    [device_token |-> device_token,
     message |-> message,
     notification_id |-> IF notification_id # None THEN notification_id ELSE uuid,
     time_to_live |-> time_to_live,
     priority |-> priority,
     collapse_key |-> collapse_key,
     push_type |-> push_type]

\* NotificationRequest.__init__; uuid is what str(uuid4()) gives if called
NotificationRequest(device_token, message, notification_id, time_to_live, priority, collapse_key, push_type, uuid) ==
    [device_token |-> device_token,
     message |-> message,
     notification_id |-> IF Truthy(notification_id) THEN notification_id ELSE uuid,
     time_to_live |-> time_to_live,
     priority |-> priority,
     collapse_key |-> collapse_key,
     push_type |-> push_type]

----------------------------------------------------------------------------
(* json.dumps(message, ensure_ascii=False).encode() *)

PyDict(items) == [t |-> "dict", items |-> items]
PySet == [t |-> "set"]

Quote == "''"

RECURSIVE JsonDumps(_), JsonItems(_)

\* the items of a dict, "key": value joined by ", "; a value that cannot
\* be serialized makes the whole fail
JsonItems(items) ==
    IF items = <<>> THEN [ok |-> TRUE, text |-> <<>>]
    ELSE LET val == JsonDumps(items[1].v)
             rest == JsonItems(Tail(items))
         IN  IF ~val.ok \/ ~rest.ok THEN [ok |-> FALSE]
             ELSE [ok |-> TRUE,
                   text |-> <<Quote>> \o items[1].k \o <<Quote, ":", " ">>
                            \o val.text
                            \o (IF Tail(items) = <<>> THEN <<>> ELSE <<",", " ">>)
                            \o rest.text]

\* (mutant) json.dumps given default=str: an object it does not know is
\* written as its str()
JsonDumps_DefaultStr(x) ==
    CASE x.t = "str" -> [ok |-> TRUE, text |-> <<Quote>> \o x.v \o <<Quote>>]
      [] x.t = "int" -> [ok |-> TRUE, text |-> IntToStr(x.v)]
      [] x.t = "dict" ->
            LET inner == JsonItems(x.items)
            IN  IF inner.ok
                THEN [ok |-> TRUE, text |-> <<"{">> \o inner.text \o <<"}">>]
                ELSE [ok |-> FALSE]
      [] OTHER -> [ok |-> TRUE, text |-> <<Quote, "s", "e", "t", "(", ")", Quote>>]

\* json.dumps: str, int and dict are written out, characters outside ASCII
\* as they are; any other object raises TypeError
JsonDumps(x) ==
    CASE x.t = "str" -> [ok |-> TRUE, text |-> <<Quote>> \o x.v \o <<Quote>>]
      [] x.t = "int" -> [ok |-> TRUE, text |-> IntToStr(x.v)]
      [] x.t = "dict" ->
            LET inner == JsonItems(x.items)
            IN  IF inner.ok
                THEN [ok |-> TRUE, text |-> <<"{">> \o inner.text \o <<"}">>]
                ELSE [ok |-> FALSE]
      [] OTHER -> [ok |-> FALSE]

\* the UTF-8 bytes of one character
Utf8Char(c) == IF c = "e-acute" THEN <<"0xC3", "0xA9">> ELSE <<c>>

RECURSIVE Utf8(_)
Utf8(text) == IF text = <<>> THEN <<>> ELSE Utf8Char(Head(text)) \o Utf8(Tail(text))

\* str.encode()
Encode(text) == [t |-> "bytes", v |-> Utf8(text)]

----------------------------------------------------------------------------
(* APNsBaseClientProtocol and its subclasses *)

ProductionHost == "api.push.apple.com"
DevelopmentHost == "api.development.push.apple.com"

\* the base class of each protocol class
ClassBase ==
    [APNsBaseClientProtocol |-> "object",
     APNsTLSClientProtocol |-> "APNsBaseClientProtocol",
     APNsProductionClientProtocol |-> "APNsTLSClientProtocol",
     APNsDevelopmentClientProtocol |-> "APNsTLSClientProtocol"]

\* the attributes each class body sets
ClassBody ==
    [APNsBaseClientProtocol |->
        [APNS_SERVER |-> ProductionHost, APNS_PORT |-> None, SECURE |-> TRUE],
     APNsTLSClientProtocol |-> [APNS_PORT |-> PyInt(443)],
     APNsProductionClientProtocol |-> [APNS_SERVER |-> ProductionHost],
     APNsDevelopmentClientProtocol |-> [APNS_SERVER |-> DevelopmentHost]]

\* self.NAME on an instance of cls: the nearest class that sets it
RECURSIVE ClassAttr(_, _)
ClassAttr(cls, name) ==
    IF name \in DOMAIN ClassBody[cls] THEN ClassBody[cls][name]
    ELSE ClassAttr(ClassBase[cls], name)

EmptyDict == <<>>

\* APNsBaseClientProtocol.__init__ on a new instance of cls
NewProtocol(cls, apns_topic, auth_provider) ==
    [cls |-> cls, apns_topic |-> apns_topic, auth_provider |-> auth_provider,
     requests |-> EmptyDict, request_streams |-> EmptyDict,
     request_statuses |-> EmptyDict, hyper_kwargs |-> EmptyDict, conn |-> None]

\* headers[key] = value
SetItem(d, key, value) ==
    [k \in DOMAIN d \cup {key} |-> IF k = key THEN value ELSE d[k]]

\* (mutant) the optional fields tested for truth instead of `is not None`
BuildHeaders_Truthy(self, request, now) ==
    LET h0 == SetItem(SetItem(EmptyDict, "apns-id", request.notification_id),
                      "apns-topic", self.apns_topic)
        h1 == IF Truthy(request.time_to_live)
              THEN SetItem(h0, "apns-expiration",
                       PyStr(Str(PyInt(IntTime(now) + request.time_to_live.v))))
              ELSE h0
        h2 == IF Truthy(request.priority)
              THEN SetItem(h1, "apns-priority", PyStr(Str(request.priority)))
              ELSE h1
        h3 == IF Truthy(request.collapse_key)
              THEN SetItem(h2, "apns-collapse-id", request.collapse_key)
              ELSE h2
    IN  IF request.push_type # None
        THEN SetItem(h3, "apns-push-type", request.push_type.value)
        ELSE h3

\* (mutant) the topic left out on the sandbox protocol
BuildHeaders_NoSandboxTopic(self, request, now) ==
    LET h0 == IF self.cls = "APNsDevelopmentClientProtocol"
              THEN SetItem(EmptyDict, "apns-id", request.notification_id)
              ELSE SetItem(SetItem(EmptyDict, "apns-id", request.notification_id),
                           "apns-topic", self.apns_topic)
        h1 == IF request.time_to_live # None
              THEN SetItem(h0, "apns-expiration",
                       PyStr(Str(PyInt(IntTime(now) + request.time_to_live.v))))
              ELSE h0
        h2 == IF request.priority # None
              THEN SetItem(h1, "apns-priority", PyStr(Str(request.priority)))
              ELSE h1
        h3 == IF request.collapse_key # None
              THEN SetItem(h2, "apns-collapse-id", request.collapse_key)
              ELSE h2
    IN  IF request.push_type # None
        THEN SetItem(h3, "apns-push-type", request.push_type.value)
        ELSE h3

\* send_notification, lines 65-77: the headers before authorization; now is
\* the reading of time.time() at line 70
BuildHeaders(self, request, now) ==
    LET h0 == SetItem(SetItem(EmptyDict, "apns-id", request.notification_id),
                      "apns-topic", self.apns_topic)
        h1 == IF request.time_to_live # None
              THEN SetItem(h0, "apns-expiration",
                       PyStr(Str(PyInt(IntTime(now) + request.time_to_live.v))))
              ELSE h0
        h2 == IF request.priority # None
              THEN SetItem(h1, "apns-priority", PyStr(Str(request.priority)))
              ELSE h1
        h3 == IF request.collapse_key # None
              THEN SetItem(h2, "apns-collapse-id", request.collapse_key)
              ELSE h2
    IN  IF request.push_type # None
        THEN SetItem(h3, "apns-push-type", request.push_type.value)
        ELSE h3

DevicePath == <<"/", "3", "/", "d", "e", "v", "i", "c", "e", "/">>

\* send_notification, lines 83-88: request_kwargs
RequestKwargs(request, headers, data) ==
    [method |-> "POST",
     url |-> DevicePath \o request.device_token,
     body |-> data,
     headers |-> headers]

----------------------------------------------------------------------------
(* The connection pools *)

CertTopic == <<"c", "o", "m", ".", "c", "e", "r", "t">>
AppTopic == <<"c", "o", "m", ".", "a", "p", "p">>

\* the files the pools read: a PEM certificate whose subject has a UID, a
\* private key, and a file that holds no key
ReadFile(path) ==
    CASE path = "cert.pem" -> [subject |-> [UID |-> PyStr(CertTopic)]]
      [] path = "key.p8" -> GoodKey
      [] path = "junk.p8" -> BadKey

\* OpenSSL.crypto.load_certificate
LoadCertificate(body) == [subject |-> body.subject]

\* ssl.create_default_context()
DefaultContext ==
    [check_hostname |-> TRUE, verify_mode |-> "CERT_REQUIRED", cert_chain |-> None]

\* (mutant) use_sandbox ignored
ProtocolClassFor_AlwaysProduction(use_sandbox) == "APNsProductionClientProtocol"

\* APNsBaseConnectionPool.__init__, lines 127-130
ProtocolClassFor(use_sandbox) ==
    IF use_sandbox THEN "APNsDevelopmentClientProtocol"
    ELSE "APNsProductionClientProtocol"

\* (mutant) the topic tested with `is None`
TopicUnset_IsNone(apns_topic) == apns_topic = None

\* line 169: not self.apns_topic, the condition under which the
\* certificate file is read and parsed for its subject
TopicUnset(apns_topic) == ~Truthy(apns_topic)

\* APNsCertConnectionPool.__init__
APNsCertConnectionPool(cert_file, topic, max_connections, max_connection_attempts, use_sandbox, no_cert_validation, ssl_context) ==
    LET ctx0 == IF ssl_context # None THEN ssl_context ELSE DefaultContext
        ctx1 == IF no_cert_validation
                THEN [ctx0 EXCEPT !.check_hostname = FALSE,
                                  !.verify_mode = "CERT_NONE"]
                ELSE ctx0
        ctx2 == [ctx1 EXCEPT !.cert_chain = cert_file]
    IN  [kind |-> "cert",
         apns_topic |-> IF TopicUnset(topic)
                        THEN LoadCertificate(ReadFile(cert_file)).subject.UID
                        ELSE topic,
         max_connections |-> max_connections,
         protocol_class |-> ProtocolClassFor(use_sandbox),
         connections |-> <<>>,
         max_connection_attempts |-> max_connection_attempts,
         cert_file |-> cert_file,
         ssl_context |-> ctx2]

\* APNsKeyConnectionPool.__init__
APNsKeyConnectionPool(key_file, key_id, team_id, topic, max_connections, max_connection_attempts, use_sandbox, ssl_context) ==
    [kind |-> "key",
     apns_topic |-> topic,
     max_connections |-> max_connections,
     protocol_class |-> ProtocolClassFor(use_sandbox),
     connections |-> <<>>,
     max_connection_attempts |-> max_connection_attempts,
     ssl_context |-> IF ssl_context # None THEN ssl_context ELSE DefaultContext,
     key_id |-> key_id,
     team_id |-> team_id,
     key |-> ReadFile(key_file)]

\* (mutant) no provider is handed to the protocol
CreateConnection_Bare(pool) ==
    NewProtocol(pool.protocol_class, pool.apns_topic, None)

\* create_connection of either pool
CreateConnection(pool) ==
    IF pool.kind = "cert"
    THEN NewProtocol(pool.protocol_class, pool.apns_topic, None)
    ELSE NewProtocol(pool.protocol_class, pool.apns_topic,
             JWTAuthorizationHeaderProvider(pool.key, pool.key_id, pool.team_id))

\* (mutant) a connection to the same host is taken from those already open
ConnectionFor_Reuse(self, cs) ==
    IF \E i \in DOMAIN cs : cs[i].host = ClassAttr(self.cls, "APNS_SERVER")
    THEN CHOOSE i \in DOMAIN cs : cs[i].host = ClassAttr(self.cls, "APNS_SERVER")
    ELSE Len(cs) + 1

\* line 91: self.conn is a newly constructed HTTP20Connection, the next one
\* in the order of construction
ConnectionFor(self, cs) == Len(cs) + 1

\* lines 91-97: the HTTP20Connection constructed for send number owner of
\* the pool built with use_sandbox = pool
NewConnection(self, owner, pool) ==
    [owner |-> owner, pool |-> pool,
     host |-> ClassAttr(self.cls, "APNS_SERVER"),
     port |-> ClassAttr(self.cls, "APNS_PORT"),
     scheme |-> "https",
     secure |-> ClassAttr(self.cls, "SECURE"),
     open |-> TRUE, requests |-> 0, responses |-> 0, used_by |-> {}]

----------------------------------------------------------------------------
(* The clock *)

ClockSteps ==
    {1, TicksPerSecond,
     TOKEN_TTL * TicksPerSecond - 1,
     TOKEN_TTL * TicksPerSecond,
     TOKEN_TTL * TicksPerSecond + 1}

\* time passes; the clock never runs backwards
Advance ==
    /\ advances < MaxAdvances
    /\ \E d \in ClockSteps : clock' = clock + d
    /\ advances' = advances + 1
    /\ UNCHANGED <<prov, signCount, calls, thr, poolVars, resultVars>>

----------------------------------------------------------------------------
(* Sequential callers of one provider *)

Threads == 1 .. NumThreads

IdleThread == [pc |-> "idle", now |-> 0, token |-> None]

StartClocks ==
    {StartSecond * TicksPerSecond + k : k \in 0 .. TicksPerSecond - 1}

\* no send_notification call in progress
IdleSend ==
    [pc |-> "idle", id |-> 0, pool |-> FALSE, request |-> None,
     protocol |-> [conn |-> None], headers |-> None, t_hdr |-> None, t_auth |-> None,
     kwargs |-> None, stream_id |-> None,
     protocols |-> 0, opens |-> 0, requests |-> 0, responses |-> 0]

\* a provider has been constructed from a key file's content; no pool
InitProvider ==
    /\ clock \in StartClocks
    /\ advances = 0
    /\ \E key \in {GoodKey, BadKey} :
          prov = JWTAuthorizationHeaderProvider(key, KeyId, TeamId)
    /\ signCount = 0
    /\ calls = <<>>
    /\ thr = [t \in Threads |-> IdleThread]
    /\ pools = [sb \in BOOLEAN |-> None]
    /\ req = None
    /\ uuids = 0
    /\ cur = IdleSend
    /\ conns = <<>>
    /\ done = <<>>
    /\ nprotocols = 0
    /\ nproviders = 1
    /\ built = None
    /\ reqArgs = None
    /\ result = None
    /\ resultArgs = None
    /\ observed = None

\* one whole get_header call, no other caller in between
GetHeaderCall ==
    /\ Len(calls) < MaxCalls
    /\ LET r == GetHeader(prov, clock)
       IN  /\ prov' = r.self
           /\ signCount' = signCount + (IF r.signed THEN 1 ELSE 0)
           /\ calls' = Append(calls,
                  [now |-> clock, before |-> prov, after |-> r.self,
                   ret |-> r.ret, raised |-> r.raised, signed |-> r.signed])
    /\ UNCHANGED <<clock, advances, thr, poolVars, resultVars>>

NextProvider == Advance \/ GetHeaderCall

SpecProvider == InitProvider /\ [][NextProvider]_vars

----------------------------------------------------------------------------
(* Threads sharing one provider, interleaved at each read and write of      *)
(* get_header                                                              *)

InCall(t) == thr[t].pc \notin {"idle", "returned", "raised"}

Started == Len(calls) + Cardinality({t \in Threads : InCall(t)})

\* line 31: now = time.time()
T_ReadClock(t) ==
    /\ ~InCall(t)
    /\ Started < MaxCalls
    /\ thr' = [thr EXCEPT ![t] = [pc |-> "check_header", now |-> clock,
                                   token |-> None]]
    /\ UNCHANGED <<clock, advances, prov, signCount, calls, poolVars, resultVars>>

\* line 32, first operand: self.__header is read
T_CheckHeader(t) ==
    /\ thr[t].pc = "check_header"
    /\ thr' = [thr EXCEPT ![t].pc =
                  IF NoHeader(prov) THEN "stamp" ELSE "check_issued"]
    /\ UNCHANGED <<clock, advances, prov, signCount, calls, poolVars, resultVars>>

\* line 32, second operand: self.__issued_at is read and compared
T_CheckIssued(t) ==
    /\ thr[t].pc = "check_issued"
    /\ thr' = [thr EXCEPT ![t].pc =
                  IF IssuedBefore(prov.issued_at, thr[t].now)
                  THEN "stamp" ELSE "return"]
    /\ UNCHANGED <<clock, advances, prov, signCount, calls, poolVars, resultVars>>

\* line 33: self.__issued_at = int(now)
T_Stamp(t) ==
    /\ thr[t].pc = "stamp"
    /\ prov' = [prov EXCEPT !.issued_at = IntTime(thr[t].now)]
    /\ thr' = [thr EXCEPT ![t].pc = "encode"]
    /\ UNCHANGED <<clock, advances, signCount, calls, poolVars, resultVars>>

\* lines 34-39: self.__issued_at is read again for the payload, and
\* jwt.encode is called; when it raises the call ends there
T_Encode(t) ==
    /\ thr[t].pc = "encode"
    /\ LET enc == JwtEncode([iss |-> prov.team_id, iat |-> prov.issued_at],
                            prov.key, "ES256", [kid |-> prov.key_id])
       IN  IF enc.ok
           THEN /\ thr' = [thr EXCEPT ![t].pc = "store", ![t].token = enc.token]
                /\ calls' = calls
           ELSE /\ thr' = [thr EXCEPT ![t].pc = "raised"]
                /\ calls' = Append(calls, [by |-> t, now |-> thr[t].now,
                                           ret |-> None, raised |-> TRUE])
    /\ signCount' = signCount + 1
    /\ UNCHANGED <<clock, advances, prov, poolVars, resultVars>>

\* line 40: self.__header = f"bearer {token}"
T_Store(t) ==
    /\ thr[t].pc = "store"
    /\ prov' = [prov EXCEPT !.header = FormatBearer(thr[t].token)]
    /\ thr' = [thr EXCEPT ![t].pc = "return"]
    /\ UNCHANGED <<clock, advances, signCount, calls, poolVars, resultVars>>

\* line 41: return self.__header, read at that moment
T_Return(t) ==
    /\ thr[t].pc = "return"
    /\ thr' = [thr EXCEPT ![t].pc = "returned"]
    /\ calls' = Append(calls, [by |-> t, now |-> thr[t].now,
                               ret |-> prov.header, raised |-> FALSE])
    /\ UNCHANGED <<clock, advances, prov, signCount, poolVars, resultVars>>

NextThreads ==
    \/ Advance
    \/ \E t \in Threads :
          \/ T_ReadClock(t)
          \/ T_CheckHeader(t)
          \/ T_CheckIssued(t)
          \/ T_Stamp(t)
          \/ T_Encode(t)
          \/ T_Store(t)
          \/ T_Return(t)

SpecThreads == InitProvider /\ [][NextThreads]_vars

----------------------------------------------------------------------------
(* A caller that builds requests and sends them, one call at a time,       *)
(* through either of two pools that differ only in use_sandbox             *)

MsgHi ==
    PyDict(<<[k |-> <<"a", "p", "s">>,
              v |-> PyDict(<<[k |-> <<"a", "l", "e", "r", "t">>,
                              v |-> PyStr(<<"h", "i">>)]>>)]>>)

MsgUnicode ==
    PyDict(<<[k |-> <<"a", "p", "s">>,
              v |-> PyDict(<<[k |-> <<"a", "l", "e", "r", "t">>,
                              v |-> PyStr(<<"c", "a", "f", "e-acute">>)],
                             [k |-> <<"b", "a", "d", "g", "e">>,
                              v |-> PyInt(1)]>>)]>>)

\* a payload json.dumps cannot serialize: a set inside it
MsgUnserializable ==
    PyDict(<<[k |-> <<"a", "p", "s">>,
              v |-> PyDict(<<[k |-> <<"a", "l", "e", "r", "t">>,
                              v |-> PySet]>>)]>>)

Device1 == <<"d", "1">>
Device2 == <<"d", "2">>
Id1 == PyStr(<<"i", "d", "1">>)

\* the arguments NotificationRequest is constructed with
RequestArgs ==
    {[device_token |-> Device1, message |-> MsgHi, notification_id |-> Id1,
      time_to_live |-> None, priority |-> None, collapse_key |-> None,
      push_type |-> None],
     [device_token |-> Device1, message |-> MsgUnicode, notification_id |-> None,
      time_to_live |-> PyInt(60), priority |-> PRIORITY_HIGH,
      collapse_key |-> PyStr(<<"k">>), push_type |-> PushType("ALERT")],
     [device_token |-> Device2, message |-> MsgHi, notification_id |-> PyStr(<<>>),
      time_to_live |-> PyInt(0), priority |-> PyInt(5),
      collapse_key |-> PyStr(<<>>), push_type |-> PushType("MDM")],
     [device_token |-> Device1, message |-> MsgUnserializable,
      notification_id |-> Id1, time_to_live |-> PyInt(60),
      priority |-> PRIORITY_NORMAL, collapse_key |-> None,
      push_type |-> PushType("BACKGROUND")]}

\* the status codes the gateway answers with in the model
Statuses == {"200", "410"}

\* the arguments the pools are constructed with: the kind of pool, the
\* topic, max_connections and, for a key-based pool, the key file
PoolArgs ==
    {[kind |-> "cert", topic |-> None, key_file |-> "none",
      max_connections |-> 10],
     [kind |-> "cert", topic |-> PyStr(<<>>), key_file |-> "none",
      max_connections |-> 10],
     [kind |-> "cert", topic |-> PyStr(AppTopic), key_file |-> "none",
      max_connections |-> 1],
     [kind |-> "key", topic |-> PyStr(AppTopic), key_file |-> "key.p8",
      max_connections |-> 1],
     [kind |-> "key", topic |-> PyStr(AppTopic), key_file |-> "junk.p8",
      max_connections |-> 10],
     [kind |-> "key", topic |-> None, key_file |-> "key.p8",
      max_connections |-> 10]}

\* two pools of one kind built from the same arguments but use_sandbox
Init ==
    /\ clock = StartSecond * TicksPerSecond
    /\ advances = 0
    /\ prov = None
    /\ signCount = 0
    /\ calls = <<>>
    /\ thr = [t \in Threads |-> IdleThread]
    /\ \E a \in PoolArgs :
          /\ built = a
          /\ pools = [sb \in BOOLEAN |->
                     IF a.kind = "cert"
                     THEN APNsCertConnectionPool("cert.pem", a.topic,
                              a.max_connections, None, sb, FALSE, None)
                     ELSE APNsKeyConnectionPool(a.key_file, KeyId, TeamId,
                              a.topic, a.max_connections, None, sb, None)]
    /\ req = None
    /\ uuids = 0
    /\ cur = IdleSend
    /\ conns = <<>>
    /\ done = <<>>
    /\ nprotocols = 0
    /\ nproviders = 0
    /\ reqArgs = None
    /\ result = None
    /\ resultArgs = None
    /\ observed = None

\* time passes between sends and between the two clock readings of a send
\* (line 70 and, in get_header, line 31); a tick at any other moment of a
\* send is the same tick taken once the send has ended
Tick ==
    /\ cur.pc \in {"idle", "auth"}
    /\ advances < MaxTicks
    /\ clock' = clock + 1
    /\ advances' = advances + 1
    /\ UNCHANGED <<prov, signCount, calls, thr, poolVars, resultVars>>

\* the caller constructs a NotificationRequest
P_NewRequest ==
    /\ cur.pc = "idle"
    /\ \E a \in RequestArgs :
          /\ Truthy(a.notification_id) \/ uuids < MaxUuids
          /\ req' = NotificationRequest(a.device_token, a.message,
                        a.notification_id, a.time_to_live, a.priority,
                        a.collapse_key, a.push_type, Uuid4(uuids + 1))
          /\ uuids' = uuids + (IF Truthy(a.notification_id) THEN 0 ELSE 1)
          /\ reqArgs' = a
    /\ UNCHANGED <<resultVars, built, clock, advances, prov, signCount, calls, thr,
                   pools, cur, conns, done, nprotocols, nproviders>>

\* the call in progress ends, by return or by an exception
Finish(c, outcome, status) ==
    /\ cur' = IdleSend
    /\ done' = Append(done,
          [id |-> c.id, pool |-> c.pool, outcome |-> outcome, status |-> status,
           conn |-> c.protocol.conn, protocols |-> c.protocols,
           opens |-> c.opens, requests |-> c.requests,
           responses |-> c.responses])

\* (mutant) the pool keeps the protocol it created in self.connections
P_Send_Pooled(sb) ==
    /\ cur.pc = "idle"
    /\ req # None
    /\ Len(done) < MaxSends
    /\ cur' = [IdleSend EXCEPT !.pc = "headers", !.id = Len(done) + 1,
                               !.pool = sb, !.request = req,
                               !.protocol = CreateConnection(pools[sb]),
                               !.protocols = 1]
    /\ pools' = [pools EXCEPT ![sb].connections =
                     Append(@, CreateConnection(pools[sb]))]
    /\ nprotocols' = nprotocols + 1
    /\ nproviders' = nproviders + (IF pools[sb].kind = "key" THEN 1 ELSE 0)
    /\ UNCHANGED <<resultVars, built, reqArgs, clock, advances, prov, signCount,
                   calls, thr, req, uuids, conns, done>>

\* pool.send_notification(request), lines 138-140: create_connection, then
\* the protocol's send_notification is entered
P_Send(sb) ==
    /\ cur.pc = "idle"
    /\ req # None
    /\ Len(done) < MaxSends
    /\ cur' = [IdleSend EXCEPT !.pc = "headers", !.id = Len(done) + 1,
                               !.pool = sb, !.request = req,
                               !.protocol = CreateConnection(pools[sb]),
                               !.protocols = 1]
    /\ nprotocols' = nprotocols + 1
    /\ nproviders' = nproviders + (IF pools[sb].kind = "key" THEN 1 ELSE 0)
    /\ UNCHANGED <<resultVars, built, reqArgs, clock, advances, prov, signCount, calls, thr,
                   pools, req, uuids, conns, done>>

\* lines 65-77
P_Headers ==
    /\ cur.pc = "headers"
    /\ cur' = [cur EXCEPT !.pc = "auth",
                          !.headers = BuildHeaders(cur.protocol, cur.request, clock),
                          !.t_hdr = PyInt(clock)]
    /\ UNCHANGED <<resultVars, built, reqArgs, clock, advances, prov, signCount, calls, thr,
                   pools, req, uuids, conns, done, nprotocols, nproviders>>

\* lines 78-79
P_Auth ==
    /\ cur.pc = "auth"
    /\ IF cur.protocol.auth_provider # None
       THEN LET r == GetHeader(cur.protocol.auth_provider, clock)
                c == [cur EXCEPT !.protocol.auth_provider = r.self,
                                 !.t_auth = PyInt(clock)]
            IN  /\ signCount' = signCount + (IF r.signed THEN 1 ELSE 0)
                /\ IF r.raised
                   THEN Finish(c, "signing_error", None)
                   ELSE /\ cur' = [c EXCEPT !.pc = "dumps",
                                     !.headers = SetItem(c.headers,
                                                     "authorization", r.ret)]
                        /\ done' = done
       ELSE /\ cur' = [cur EXCEPT !.pc = "dumps"]
            /\ UNCHANGED <<signCount, done>>
    /\ UNCHANGED <<resultVars, built, reqArgs, clock, advances, prov, calls, thr,
                   pools, req, uuids, conns, nprotocols, nproviders>>

\* lines 81-89
P_Dumps ==
    /\ cur.pc = "dumps"
    /\ LET text == JsonDumps(cur.request.message)
       IN  IF text.ok
           THEN /\ cur' = [cur EXCEPT !.pc = "open",
                             !.kwargs = RequestKwargs(cur.request, cur.headers,
                                                      Encode(text.text))]
                /\ done' = done
           ELSE Finish(cur, "serialization_error", None)
    /\ UNCHANGED <<resultVars, built, reqArgs, clock, advances, prov, signCount, calls, thr,
                   pools, req, uuids, conns, nprotocols, nproviders>>

\* lines 91-97: the connection is opened, or opening it raises
P_Open ==
    /\ cur.pc = "open"
    /\ \E ok \in BOOLEAN :
          LET i == ConnectionFor(cur.protocol, conns)
              c == [cur EXCEPT !.opens = cur.opens + 1]
          IN  IF ok
              THEN /\ conns' = IF i > Len(conns)
                               THEN Append(conns, NewConnection(c.protocol, c.id, c.pool))
                               ELSE conns
                   /\ cur' = [c EXCEPT !.pc = "request", !.protocol.conn = PyInt(i)]
                   /\ done' = done
              ELSE /\ Finish(c, "connect_error", None)
                   /\ conns' = conns
    /\ UNCHANGED <<resultVars, built, reqArgs, clock, advances, prov, signCount, calls, thr,
                   pools, req, uuids, nprotocols, nproviders>>

\* line 99: stream_id = self.conn.request(**request_kwargs), or it raises
P_Request ==
    /\ cur.pc = "request"
    /\ \E ok \in BOOLEAN :
          LET i == cur.protocol.conn.v
              c == [cur EXCEPT !.requests = cur.requests + 1]
          IN  IF ok
              THEN /\ conns' = [conns EXCEPT
                                  ![i].requests = conns[i].requests + 1,
                                  ![i].used_by = conns[i].used_by \cup {c.id}]
                   /\ cur' = [c EXCEPT !.pc = "response",
                                !.stream_id = PyInt(2 * conns[i].requests + 1)]
                   /\ done' = done
              ELSE /\ Finish(c, "request_error", None)
                   /\ conns' = conns
    /\ UNCHANGED <<resultVars, built, reqArgs, clock, advances, prov, signCount, calls, thr,
                   pools, req, uuids, nprotocols, nproviders>>

\* lines 101-103 and 141: the response is read and returned, or reading raises
P_Response ==
    /\ cur.pc = "response"
    /\ \E status \in Statuses \cup {"raise"} :
          LET i == cur.protocol.conn.v
              c == [cur EXCEPT !.responses = cur.responses + 1]
          IN  IF status # "raise"
              THEN /\ conns' = [conns EXCEPT
                                  ![i].responses = conns[i].responses + 1,
                                  ![i].used_by = conns[i].used_by \cup {c.id}]
                   /\ Finish(c, "returned", PyStr(status))
              ELSE /\ Finish(c, "response_error", None)
                   /\ conns' = conns
    /\ UNCHANGED <<resultVars, built, reqArgs, clock, advances, prov, signCount, calls, thr,
                   pools, req, uuids, nprotocols, nproviders>>

Next ==
    \/ Tick
    \/ P_NewRequest
    \/ \E sb \in BOOLEAN : P_Send(sb)
    \/ P_Headers
    \/ P_Auth
    \/ P_Dumps
    \/ P_Open
    \/ P_Request
    \/ P_Response

Spec == Init /\ [][Next]_vars

----------------------------------------------------------------------------
(* NotificationResult: a caller builds results and reads is_successful      *)

\* class APNS_RESPONSE_CODE
APNS_RESPONSE_CODE ==
    [SUCCESS |-> PyStr(<<"2", "0", "0">>),
     BAD_REQUEST |-> PyStr(<<"4", "0", "0">>),
     FORBIDDEN |-> PyStr(<<"4", "0", "3">>),
     METHOD_NOT_ALLOWED |-> PyStr(<<"4", "0", "5">>),
     GONE |-> PyStr(<<"4", "1", "0">>),
     PAYLOAD_TOO_LARGE |-> PyStr(<<"4", "1", "3">>),
     TOO_MANY_REQUESTS |-> PyStr(<<"4", "2", "9">>),
     INTERNAL_SERVER_ERROR |-> PyStr(<<"5", "0", "0">>),
     SERVICE_UNAVAILABLE |-> PyStr(<<"5", "0", "3">>)]

\* NotificationResult.__init__
NotificationResult(notification_id, status, description) ==
    [notification_id |-> notification_id, status |-> status,
     description |-> description]

\* (mutant) the status compared by its str()
IsSuccessful_Coerced(self) ==
    /\ self.status.t \in {"str", "int"}
    /\ Str(self.status) = APNS_RESPONSE_CODE.SUCCESS.v

\* the property is_successful: == of Python, which is false between a str
\* and an object of another type
IsSuccessful(self) == self.status = APNS_RESPONSE_CODE.SUCCESS

\* the arguments NotificationResult is constructed with: every response
\* code, and a status that is no str
ResultArgs ==
    [notification_id : {Id1, Uuid4(1), PyStr(<<>>)},
     status : {APNS_RESPONSE_CODE[n] : n \in DOMAIN APNS_RESPONSE_CODE}
                  \cup {PyInt(200), None},
     description : {None, PyStr(<<"U", "n", "r", "e", "g", "i", "s", "t", "e", "r", "e", "d">>)}]

\* no result yet; no provider, pool or request
InitResult ==
    /\ clock = StartSecond * TicksPerSecond
    /\ advances = 0
    /\ prov = None
    /\ signCount = 0
    /\ calls = <<>>
    /\ thr = [t \in Threads |-> IdleThread]
    /\ pools = [sb \in BOOLEAN |-> None]
    /\ req = None
    /\ uuids = 0
    /\ cur = IdleSend
    /\ conns = <<>>
    /\ done = <<>>
    /\ nprotocols = 0
    /\ nproviders = 0
    /\ built = None
    /\ reqArgs = None
    /\ result = None
    /\ resultArgs = None
    /\ observed = None

\* the caller constructs a NotificationResult
R_Construct ==
    /\ \E a \in ResultArgs :
          /\ result' = NotificationResult(a.notification_id, a.status,
                                          a.description)
          /\ resultArgs' = a
    /\ observed' = None
    /\ UNCHANGED <<clock, advances, prov, signCount, calls, thr, poolVars>>

\* the caller reads result.is_successful
R_IsSuccessful ==
    /\ result # None
    /\ observed' = [value |-> IsSuccessful(result), of |-> result]
    /\ UNCHANGED <<result, resultArgs>>
    /\ UNCHANGED <<clock, advances, prov, signCount, calls, thr, poolVars>>

NextResult == R_Construct \/ R_IsSuccessful

SpecResult == InitResult /\ [][NextResult]_vars

----------------------------------------------------------------------------
(* Claims about the provider *)

\* the age, in ticks, of a token at clock reading now
TokenAge(header, now) == now - header.token.iat * TicksPerSecond

TtlTicks == TOKEN_TTL * TicksPerSecond

\* C1: in a sequence of get_header calls at non-decreasing clock readings,
\* every header returned carries a token issued at most TOKEN_TTL before
\* the clock reading of the call that returned it.
C1_NeverReturnsExpired ==
    \A i \in DOMAIN calls :
        ~calls[i].raised => TokenAge(calls[i].ret, calls[i].now) <= TtlTicks

\* a cached token was returned at the very end of its life, and a later
\* call replaced it
C1_Witness ==
    \E i, j \in DOMAIN calls :
        /\ i < j
        /\ ~calls[i].signed /\ ~calls[i].raised
        /\ TokenAge(calls[i].ret, calls[i].now) = TtlTicks
        /\ calls[j].signed /\ ~calls[j].raised

\* C2 (as stated): a call at t2, at most TOKEN_TTL after the call at t1 that
\* issued the token, does not sign and returns the identical header.
C2_Original ==
    \A i, j \in DOMAIN calls :
        (/\ i < j
         /\ calls[i].signed /\ ~calls[i].raised
         /\ calls[j].now - calls[i].now <= TtlTicks)
        => (~calls[j].signed /\ calls[j].ret = calls[i].ret)

\* C2 (amended): a call at t2, at most TOKEN_TTL after the issued-at
\* timestamp int(t1) of the token the call at t1 issued, does not sign and
\* returns the identical header.
C2_WithinTtlOfIssuedAt ==
    \A i, j \in DOMAIN calls :
        (/\ i < j
         /\ calls[i].signed /\ ~calls[i].raised
         /\ TokenAge(calls[i].ret, calls[j].now) <= TtlTicks)
        => (/\ ~calls[j].signed
            /\ ~calls[j].raised
            /\ calls[j].ret = calls[i].ret
            /\ calls[j].after = calls[j].before)

\* a token was issued and returned again exactly TOKEN_TTL after its
\* issued-at timestamp
C2_Witness ==
    \E i, j \in DOMAIN calls :
        /\ i < j
        /\ calls[i].signed /\ ~calls[i].raised
        /\ TokenAge(calls[i].ret, calls[j].now) = TtlTicks
        /\ calls[j].ret = calls[i].ret

\* the case of C3: the provider holds a token and the clock reading of the
\* call is more than TOKEN_TTL after that token was issued
C3_Case(c) ==
    /\ c.before.header # None
    /\ TokenAge(c.before.header, c.now) > TtlTicks

\* C3: a call on a provider that holds a token issued more than TOKEN_TTL
\* before the call's clock reading signs a new token with a greater
\* issued-at timestamp, caches it and returns it.
C3_RefreshesWhenStale ==
    \A i \in DOMAIN calls :
        C3_Case(calls[i]) =>
            /\ calls[i].signed /\ ~calls[i].raised
            /\ calls[i].ret.token.iat > calls[i].before.header.token.iat
            /\ calls[i].ret.token.iat = IntTime(calls[i].now)
            /\ calls[i].after.header = calls[i].ret
            /\ calls[i].after.issued_at = calls[i].ret.token.iat

\* a call found a token one tick past its life
C3_Witness ==
    \E i \in DOMAIN calls :
        /\ C3_Case(calls[i])
        /\ TokenAge(calls[i].before.header, calls[i].now) = TtlTicks + 1
        /\ calls[i].ret # calls[i].before.header

Quiescent == \A t \in Threads : ~InCall(t)

\* C4: with threads calling get_header on one provider without a lock,
\* under every interleaving no caller is returned a token issued more than
\* TOKEN_TTL before the caller read the clock, and once all calls have
\* returned the cached header was signed with the cached timestamp.
C4_RacesAreHarmless ==
    /\ \A i \in DOMAIN calls :
          ~calls[i].raised => TokenAge(calls[i].ret, calls[i].now) <= TtlTicks
    /\ (Quiescent /\ prov.header # None) =>
          prov.header.token.iat = prov.issued_at

\* the two halves of C4, each on its own
C4_NoStaleReturn ==
    \A i \in DOMAIN calls :
        ~calls[i].raised => TokenAge(calls[i].ret, calls[i].now) <= TtlTicks

C4_CacheConsistent ==
    (Quiescent /\ prov.header # None) => prov.header.token.iat = prov.issued_at

----------------------------------------------------------------------------
(* Claims about sending *)

Exchanged == {"request_error", "response_error", "returned"}

\* the connections send number k opened
OpenedBy(k) == {i \in DOMAIN conns : conns[i].owner = k}

\* C5: every send_notification call creates one protocol object and makes
\* one attempt at each step it reaches (open, request, response), on a
\* connection of its own that no other send uses; a failure ends the call
\* with no second attempt.
C5_OneExchangePerSend ==
    /\ \A k \in DOMAIN done :
          LET d == done[k]
          IN  /\ d.id = k
              /\ d.protocols = 1
              /\ d.opens = (IF d.outcome \in {"signing_error", "serialization_error"}
                            THEN 0 ELSE 1)
              /\ d.requests = (IF d.outcome \in Exchanged THEN 1 ELSE 0)
              /\ d.responses = (IF d.outcome \in {"response_error", "returned"}
                                THEN 1 ELSE 0)
              /\ Cardinality(OpenedBy(k)) = (IF d.outcome \in Exchanged THEN 1 ELSE 0)
              /\ (d.conn # None) => OpenedBy(k) = {d.conn.v}
              /\ (d.conn = None) => OpenedBy(k) = {}
    /\ \A i \in DOMAIN conns :
          /\ conns[i].used_by \subseteq {conns[i].owner}
          /\ conns[i].requests <= 1
          /\ conns[i].responses <= conns[i].requests
    /\ nprotocols = Len(done) + (IF cur.pc = "idle" THEN 0 ELSE 1)
    /\ (cur.pc \in {"request", "response"}) => OpenedBy(cur.id) = {cur.protocol.conn.v}

\* two sends through the same pool have finished, the first with a response
\* and the second when reading its response failed
C5_Witness ==
    /\ Len(done) >= 2
    /\ done[1].pool = done[2].pool
    /\ done[1].outcome = "returned"
    /\ done[2].outcome = "response_error"
    /\ Len(conns) = 2

\* C6: every connection a send opened is closed once that send has
\* returned or raised.
C6_ReleasedOnReturn ==
    \A i \in DOMAIN conns :
        conns[i].owner \in DOMAIN done => ~conns[i].open

\* whether a payload holds an object json cannot write
RECURSIVE HoldsSet(_)
HoldsSet(x) ==
    CASE x.t = "set" -> TRUE
      [] x.t = "dict" -> \E i \in DOMAIN x.items : HoldsSet(x.items[i].v)
      [] OTHER -> FALSE

\* the step that ends the send in progress
Ends == Len(done') = Len(done) + 1

Ended == done'[Len(done')]

\* C7: a send whose payload cannot be serialized fails with the
\* serialization error, having opened no connection and sent no request.
C7_SerializationErrorFirst ==
    [][(Ends /\ HoldsSet(cur.request.message)) =>
          /\ Ended.outcome = "serialization_error"
          /\ Ended.opens = 0
          /\ Ended.requests = 0
          /\ Ended.conn = None]_vars

\* C7 (amended): a send whose payload cannot be serialized ends before any
\* connection is opened and before any request is sent: with the
\* serialization error when the headers were built (always so on a
\* certificate-based pool), or with the error get_header raised before
\* serialization was tried.
C7_NothingSentWhenUnserializable ==
    [][(Ends /\ HoldsSet(cur.request.message)) =>
          /\ Ended.outcome \in {"serialization_error", "signing_error"}
          /\ (Ended.outcome = "serialization_error") <=> (cur.pc = "dumps")
          /\ (Ended.outcome = "signing_error") <=> (cur.pc = "auth")
          /\ (pools[cur.pool].kind = "cert") => Ended.outcome = "serialization_error"
          /\ Ended.opens = 0
          /\ Ended.requests = 0
          /\ Ended.conn = None
          /\ conns' = conns
          /\ \A i \in DOMAIN conns : conns[i].owner # cur.id]_vars

\* a send through a key-based pool got its token and then failed to
\* serialize its payload
C7_Witness ==
    \E k \in DOMAIN done :
        /\ done[k].outcome = "serialization_error"
        /\ pools[done[k].pool].kind = "key"

\* the value of a string of decimal digits
DigitValue(c) == CHOOSE d \in 0 .. 9 : Digits[d + 1] = c

RECURSIVE ParseDecimal(_)
ParseDecimal(str) ==
    IF Len(str) = 1 THEN DigitValue(str[1])
    ELSE 10 * ParseDecimal(SubSeq(str, 1, Len(str) - 1)) + DigitValue(str[Len(str)])

\* a non-negative int written the way str() writes it
IsDecimal(str) ==
    /\ Len(str) >= 1
    /\ \A i \in DOMAIN str : \E d \in 0 .. 9 : Digits[d + 1] = str[i]
    /\ (Len(str) > 1 => str[1] # "0")

\* the names of the headers a request must carry, authorization aside
ExpectedNames(r) ==
    {"apns-id", "apns-topic"}
    \cup (IF r.time_to_live # None THEN {"apns-expiration"} ELSE {})
    \cup (IF r.priority # None THEN {"apns-priority"} ELSE {})
    \cup (IF r.collapse_key # None THEN {"apns-collapse-id"} ELSE {})
    \cup (IF r.push_type # None THEN {"apns-push-type"} ELSE {})

\* C8: the headers send_notification builds are exactly apns-id (the
\* request's identifier), apns-topic (the pool's topic), apns-expiration iff
\* time_to_live is set (the decimal string of int(T) + time_to_live),
\* apns-priority iff priority is set (its string form), apns-collapse-id iff
\* collapse_key is set, apns-push-type iff push_type is set (its wire
\* string, "alert" for ALERT), and besides them only authorization.
C8_HeaderSet ==
    (cur.pc \in {"auth", "dumps", "open", "request", "response"}) =>
        LET h == cur.headers
            r == cur.request
        IN  /\ DOMAIN h \ {"authorization"} = ExpectedNames(r)
            /\ ("authorization" \in DOMAIN h) => pools[cur.pool].kind = "key"
            /\ h["apns-id"] = r.notification_id
            /\ h["apns-topic"] = pools[cur.pool].apns_topic
            /\ (r.time_to_live # None) =>
                  /\ h["apns-expiration"].t = "str"
                  /\ IsDecimal(h["apns-expiration"].v)
                  /\ ParseDecimal(h["apns-expiration"].v)
                        = (cur.t_hdr.v \div TicksPerSecond) + r.time_to_live.v
            /\ (r.priority # None) =>
                  /\ h["apns-priority"].t = "str"
                  /\ (r.priority.t = "str" => h["apns-priority"] = r.priority)
                  /\ (r.priority.t = "int" =>
                        /\ IsDecimal(h["apns-priority"].v)
                        /\ ParseDecimal(h["apns-priority"].v) = r.priority.v)
            /\ (r.collapse_key # None) => h["apns-collapse-id"] = r.collapse_key
            /\ (r.push_type # None) =>
                  /\ h["apns-push-type"] = PyStr(PushTypeValues[r.push_type.name])
                  /\ (r.push_type.name = "ALERT" =>
                        h["apns-push-type"].v = <<"a", "l", "e", "r", "t">>)

\* headers were built between two whole seconds for a request with
\* time_to_live 0, an int priority and an empty collapse key
C8_Witness ==
    /\ cur.pc = "dumps"
    /\ cur.request.time_to_live = PyInt(0)
    /\ cur.request.priority = PyInt(5)
    /\ cur.request.collapse_key = PyStr(<<>>)
    /\ cur.t_hdr.v % TicksPerSecond # 0
    /\ "apns-expiration" \in DOMAIN cur.headers

\* C9: every connection of a pool goes to the host use_sandbox chose at
\* construction, on port 443 with secure on; the two hosts differ.
C9_EndpointFixed ==
    /\ "api.development.push.apple.com" # "api.push.apple.com"
    /\ \A i \in DOMAIN conns :
          /\ conns[i].host = (IF conns[i].pool
                              THEN "api.development.push.apple.com"
                              ELSE "api.push.apple.com")
          /\ conns[i].port = PyInt(443)
          /\ conns[i].secure = TRUE
    /\ \A i, j \in DOMAIN conns :
          conns[i].pool = conns[j].pool =>
              /\ conns[i].host = conns[j].host
              /\ conns[i].port = conns[j].port

\* the sandbox pool has opened two connections, one after the other
C9_Witness ==
    \E i, j \in DOMAIN conns :
        /\ i < j
        /\ conns[i].pool /\ conns[j].pool
        /\ conns[i].owner # conns[j].owner

\* what the pool built with the other use_sandbox builds from the request
\* and clock readings of the send in progress
TwinKwargs ==
    LET twin == CreateConnection(pools[~cur.pool])
        h == BuildHeaders(twin, cur.request, cur.t_hdr.v)
        hh == IF twin.auth_provider # None
              THEN SetItem(h, "authorization",
                       GetHeader(twin.auth_provider, cur.t_auth.v).ret)
              ELSE h
    IN  RequestKwargs(cur.request, hh,
                      Encode(JsonDumps(cur.request.message).text))

\* C10: a pool and the pool that differs from it only in use_sandbox build,
\* from the same request at the same clock readings, the same method, path,
\* headers and body; they differ in the host they connect to, and only so.
C10_SandboxOnlyChangesHost ==
    (cur.pc \in {"open", "request", "response"}) =>
        LET mine == cur.protocol.cls
            other == pools[~cur.pool].protocol_class
        IN  /\ cur.kwargs = TwinKwargs
            /\ ClassAttr(mine, "APNS_SERVER") # ClassAttr(other, "APNS_SERVER")
            /\ ClassAttr(mine, "APNS_PORT") = ClassAttr(other, "APNS_PORT")
            /\ ClassAttr(mine, "SECURE") = ClassAttr(other, "SECURE")

\* the sandbox pool of a key-based pair has a request with every optional
\* header ready to send
C10_Witness ==
    /\ cur.pc = "open"
    /\ cur.pool
    /\ pools[TRUE].kind = "key"
    /\ "authorization" \in DOMAIN cur.kwargs.headers
    /\ Cardinality(DOMAIN cur.kwargs.headers) = 7

----------------------------------------------------------------------------
(* Claims about the pools' construction *)

\* the subject UID of the certificate the certificate-based pools load
CertUid == LoadCertificate(ReadFile("cert.pem")).subject.UID

\* the topic header of the send in progress is the topic of its pool
TopicHeaderIsPoolTopic ==
    cur.headers # None => cur.headers["apns-topic"] = pools[cur.pool].apns_topic

\* C11 as stated: with no topic the topic is the certificate's subject UID;
\* with any topic supplied the certificate is not parsed for it and the
\* supplied topic is the one every send carries.
C11_Original ==
    built.kind = "cert" =>
        /\ TopicHeaderIsPoolTopic
        /\ \A sb \in BOOLEAN :
              IF built.topic = None
              THEN TopicUnset(built.topic) /\ pools[sb].apns_topic = CertUid
              ELSE ~TopicUnset(built.topic) /\ pools[sb].apns_topic = built.topic

\* C11: a certificate-based pool constructed with no topic, or with an
\* empty one, takes the subject UID of its certificate as its topic; one
\* constructed with a non-empty topic does not parse the certificate for a
\* topic and keeps the supplied topic, and every send carries the pool's
\* topic in apns-topic.
C11_TopicFromCertUnlessNonEmpty ==
    built.kind = "cert" =>
        /\ TopicHeaderIsPoolTopic
        /\ \A sb \in BOOLEAN :
              IF built.topic = None \/ built.topic = PyStr(<<>>)
              THEN TopicUnset(built.topic) /\ pools[sb].apns_topic = CertUid
              ELSE ~TopicUnset(built.topic) /\ pools[sb].apns_topic = built.topic

\* a pool built without a topic has a request ready that carries the
\* certificate's UID as its topic
C11_Witness ==
    /\ built.kind = "cert"
    /\ built.topic = None
    /\ cur.kwargs # None
    /\ cur.kwargs.headers["apns-topic"] = PyStr(CertTopic)

----------------------------------------------------------------------------
(* Claims about the credential provider of a key-based pool *)

\* the pools that have been asked to send so far
PoolsUsed ==
    {done[i].pool : i \in DOMAIN done}
        \cup (IF cur.pc # "idle" THEN {cur.pool} ELSE {})

\* every clock reading so far is within TOKEN_TTL of the start
WithinTtlOfStart ==
    clock - StartSecond * TicksPerSecond <= TOKEN_TTL * TicksPerSecond

\* C12: a key-based pool has one credential provider for its lifetime, so
\* that no more providers exist than pools have been used, and sends made
\* within 30 minutes of the token's issuance sign nothing: with a key that
\* signs, no more tokens are signed than pools have been used.
C12_OneProviderPerPool ==
    built.kind = "key" =>
        /\ nproviders <= Cardinality(PoolsUsed)
        /\ (built.key_file = "key.p8" /\ WithinTtlOfStart) =>
              signCount <= Cardinality(PoolsUsed)

----------------------------------------------------------------------------
(* Claims about the notification identifier *)

\* C13 as stated: a request constructed with any identifier supplied keeps
\* it.
C13_Original ==
    (req # None /\ reqArgs.notification_id # None) =>
        req.notification_id = reqArgs.notification_id

\* the identifier of the request the caller holds, and what a send of it
\* puts in apns-id
C13_IdOfRequest ==
    /\ req # None =>
          IF Truthy(reqArgs.notification_id)
          THEN req.notification_id = reqArgs.notification_id
          ELSE /\ req.notification_id = Uuid4(uuids)
               /\ \A k \in 1 .. uuids - 1 : Uuid4(k) # req.notification_id
    /\ cur.pc # "idle" =>
          /\ cur.request = req
          /\ cur.headers # None =>
                cur.headers["apns-id"] = req.notification_id
          /\ cur.kwargs # None =>
                cur.kwargs.headers["apns-id"] = req.notification_id

\* an identifier is generated only when a request is constructed without
\* one, once, and no step of a send changes the request
C13_IdSteps ==
    /\ uuids' # uuids =>
          /\ cur.pc = "idle" /\ cur'.pc = "idle"
          /\ uuids' = uuids + 1
          /\ ~Truthy(reqArgs'.notification_id)
          /\ req'.notification_id = Uuid4(uuids')
    /\ req' # req => (cur.pc = "idle" /\ cur'.pc = "idle")

\* C13: a NotificationRequest constructed with a non-empty identifier keeps
\* exactly that identifier; one constructed with no identifier, or an empty
\* one, gets an identifier generated once at its construction, different
\* from every identifier generated before; the identifier does not change
\* afterwards, and every send of the request puts it in apns-id.
C13_IdentifierKeptOrGeneratedOnce ==
    []C13_IdOfRequest /\ [][C13_IdSteps]_vars

\* after one send has ended, a request whose identifier was generated is
\* being sent with that identifier in apns-id
C13_Witness ==
    /\ reqArgs # None
    /\ reqArgs.notification_id = None
    /\ uuids = 2
    /\ req.notification_id = Uuid4(2)
    /\ Len(done) = 1
    /\ cur.kwargs # None
    /\ cur.kwargs.headers["apns-id"] = Uuid4(2)

----------------------------------------------------------------------------
(* Claims about NotificationResult *)

\* the response codes other than SUCCESS
FailureCodes ==
    {APNS_RESPONSE_CODE[n] : n \in DOMAIN APNS_RESPONSE_CODE \ {"SUCCESS"}}

\* C14: is_successful of a NotificationResult is true exactly when its
\* status is the string "200", false for each of the codes 400, 403, 405,
\* 410, 413, 429, 500 and 503, and the result keeps the identifier, status
\* and description it was built with, also after is_successful was read.
C14_SuccessIff200 ==
    /\ result # None =>
          /\ result.notification_id = resultArgs.notification_id
          /\ result.status = resultArgs.status
          /\ result.description = resultArgs.description
    /\ observed # None =>
          /\ observed.of = result
          /\ observed.value <=> (resultArgs.status = PyStr(<<"2", "0", "0">>))
          /\ resultArgs.status \in FailureCodes => ~observed.value
          /\ Cardinality(FailureCodes) = 8

\* is_successful has been read as false from a result built with status
\* "410" and a description
C14_Witness ==
    /\ observed # None
    /\ ~observed.value
    /\ result.status = PyStr(<<"4", "1", "0">>)
    /\ result.description # None

----------------------------------------------------------------------------
(* Claims about the topic of a key-based pool *)

\* C15: constructing a key-based pool without a topic fails, so that no
\* such pool ever has a request built and ready to send whose apns-topic
\* is missing.
C15_NoKeyPoolWithoutTopic ==
    (built.kind = "key" /\ ~Truthy(built.topic)) =>
        /\ cur.pc \notin {"open", "request", "response"}
        /\ \A i \in DOMAIN conns : conns[i].requests = 0

----------------------------------------------------------------------------
(* Claims about what a send leaves alone *)

\* the pools are as their constructors left them, their connections lists
\* are empty, the containers of the protocol in use are empty, and a
\* connection can be opened however many have been opened before
C16_PoolAsBuilt ==
    /\ \A sb \in BOOLEAN :
          /\ pools[sb].connections = <<>>
          /\ pools[sb].max_connections = built.max_connections
          /\ pools[sb].max_connection_attempts = None
          /\ pools[sb].protocol_class = ProtocolClassFor(sb)
          /\ pools[sb].apns_topic =
                (IF built.kind = "cert" /\ ~Truthy(built.topic)
                 THEN CertUid ELSE built.topic)
          /\ built.kind = "key" => pools[sb].key = ReadFile(built.key_file)
    /\ cur.pc # "idle" =>
          /\ cur.protocol.requests = EmptyDict
          /\ cur.protocol.request_streams = EmptyDict
          /\ cur.protocol.request_statuses = EmptyDict
    /\ cur.pc = "open" => ENABLED P_Open

\* C16: no step of any send, successful or failing, changes a pool: topic,
\* endpoint class, key material, max_connections and
\* max_connection_attempts stay as constructed, the connections list stays
\* empty and the requests, request_streams and request_statuses of every
\* protocol created stay empty; max_connections does not limit how many
\* connections are created.
C16_SendChangesNoPoolState ==
    []C16_PoolAsBuilt /\ [][pools' = pools]_vars

\* two sends have ended on pools built with max_connections = 1, each on a
\* connection of its own
C16_Witness ==
    /\ built.max_connections = 1
    /\ Len(done) = 2
    /\ nprotocols = 2
    /\ Len(conns) = 2
    /\ \A sb \in BOOLEAN : pools[sb].connections = <<>>

----------------------------------------------------------------------------
(* Claims about authorization *)

\* C17: a request of a certificate-based pool has no authorization header,
\* and such a pool never creates a credential provider nor has anything
\* signed; a request of a key-based pool has an authorization header made
\* of "bearer " and a token signed with ES256 by the pool's key, with the
\* pool's key id as kid and its team id as issuer.
C17_AuthorizationByPoolKind ==
    /\ built.kind = "cert" =>
          /\ nproviders = 0
          /\ signCount = 0
          /\ cur.pc # "idle" => cur.protocol.auth_provider = None
          /\ cur.headers # None => "authorization" \notin DOMAIN cur.headers
          /\ cur.kwargs # None =>
                "authorization" \notin DOMAIN cur.kwargs.headers
    /\ (built.kind = "key" /\ cur.kwargs # None) =>
          /\ "authorization" \in DOMAIN cur.kwargs.headers
          /\ LET a == cur.kwargs.headers["authorization"]
             IN  /\ a.prefix = <<"b", "e", "a", "r", "e", "r", " ">>
                 /\ a.token.alg = "ES256"
                 /\ a.token.key = pools[cur.pool].key
                 /\ a.token.kid = pools[cur.pool].key_id
                 /\ a.token.iss = pools[cur.pool].team_id

\* a key-based pool has sent a request with its bearer token and awaits the
\* response
C17_Witness ==
    /\ built.kind = "key"
    /\ cur.pc = "response"
    /\ conns[cur.protocol.conn.v].requests = 1
    /\ cur.kwargs.headers["authorization"].token.key = GoodKey

\* the sends that have been through lines 78-79
PastAuth ==
    Len(done) + (IF cur.pc \in {"dumps", "open", "request", "response"}
                 THEN 1 ELSE 0)

\* C18: every send on a key-based pool has a provider of its own, new and
\* with nothing cached, so that jwt.encode has been called once for each
\* send that got to the authorization header, and the token of each request
\* is issued at the whole second of the clock reading of its own send.
C18_SignsOnEverySend ==
    built.kind = "key" =>
        /\ nproviders = nprotocols
        /\ signCount = PastAuth
        /\ cur.pc \in {"headers", "auth"} =>
              /\ cur.protocol.auth_provider.header = None
              /\ cur.protocol.auth_provider.issued_at = None
        /\ cur.kwargs # None =>
              /\ cur.kwargs.headers["authorization"].token.iat
                    = cur.t_auth.v \div TicksPerSecond
              /\ cur.protocol.auth_provider.issued_at
                    = cur.t_auth.v \div TicksPerSecond

\* a second send on the same pool, with no time passed since the first,
\* has had its own token signed
C18_Witness ==
    /\ built.kind = "key"
    /\ built.key_file = "key.p8"
    /\ advances = 0
    /\ Len(done) = 1
    /\ done[1].outcome = "returned"
    /\ done[1].pool = cur.pool
    /\ cur.pc = "open"
    /\ signCount = 2

====
